---------------------------- MODULE Spec2Model ----------------------------
(***************************************************************************)
(* Pitch-control page (final variant, src/unnamed/part_000 lines 943-2359):*)
(* the recorder / replayer, the render throttle, the recording buttons,    *)
(* the feature toggles and the pointer handlers, as one state machine.     *)
(*                                                                         *)
(* Numbers.  Coordinates and velocities are JavaScript numbers; the model  *)
(* keeps them as integers counted in 1/Unit of a logical unit, so that the *)
(* formation (122.4, 258.4, ...) and the ball margin (8.4) are exact.      *)
(* Timestamps (performance.now(), the requestAnimationFrame timestamp) are *)
(* inputs: drawn from 0..MaxTime in non-decreasing order under Spec, and   *)
(* from 0..MaxSkewTime in any order under SpecAnyTime.                     *)
(***************************************************************************)
EXTENDS Integers, Sequences, FiniteSets, TLC

\* ---- bounds of the model ------------------------------------------------
\* timestamps handed to the page in non-decreasing order are 0..MaxTime
MaxTime == 2
\* timestamps handed to the page in any order are 0..MaxSkewTime
MaxSkewTime == 1
\* a recording holds at most MaxFrames frames (ticks that would capture more are cut off)
MaxFrames == 3
\* a run delivers at most MaxInputs pointer and checkbox events
MaxInputs == 3
\* each team fields the first TeamSize players of its formation
TeamSize == 1
\* the control map is evaluated for MinFieldPlayers..MaxFieldPlayers players
MinFieldPlayers == 2
MaxFieldPlayers == 3

\* ---- number representation and program constants -------------------------
Unit == 10
null == 0
LOGICAL_WIDTH == 1050 * Unit
LOGICAL_HEIGHT == 680 * Unit
PLAYER_RADIUS == 10
HIT_RADIUS_FACTOR == 2
MAX_SPEED_VIS == 35
INITIAL_SPEED == 18
BALL_RADIUS == 7
\* ARROW_HIT_RADIUS_FACTOR = 1.6, times 10
ARROW_HIT_RADIUS_FACTOR_x10 == 16
\* the factors 1.5 (player margin), 1.2 (ball margin), 1.9 (ball hit radius)
\* and 4.2 (maxArrowLen), times 10
PLAYER_MARGIN_x10 == 15
BALL_MARGIN_x10 == 12
BALL_HIT_x10 == 19
MAX_ARROW_LEN_x10 == 42
REPLAY_SPEED == 1

VARIABLES
  players,               \* Player[]: sequence of [id, team, x, y, vx, vy]
  ball,                  \* [x, y]
  draggingPlayerId, dragOffsetX, dragOffsetY, hoveredPlayerId,
  draggingArrowPlayerId, draggingBall,
  arrowsEnabled, ballModeEnabled, passLinesEnabled,
  passCheckbox_disabled, \* togglePassLines.disabled
  isRecording, isReplaying, recordingFrames,
  recordStartTime, replayStartTime, replayIndex,
  renderQueued,          \* the flag requestRender sets and the frame callback clears
  pendingFrames,         \* the animation-frame callbacks requested and not yet run
  recordBtn_disabled, stopBtn_disabled, playBtn_disabled,
  lastOp,                \* history: the event delivered last
  lastNow,               \* history: the timestamp read by the previous event that read one
  inputs,                \* history: the number of pointer and checkbox events so far
  controlCell,           \* the cell of the control map evaluated last, with its control value
  passLine               \* the pass examined last, with canPassOnGround's verdict

dragVars == <<draggingPlayerId, dragOffsetX, dragOffsetY, hoveredPlayerId,
              draggingArrowPlayerId, draggingBall>>
toggleVars == <<arrowsEnabled, ballModeEnabled, passLinesEnabled, passCheckbox_disabled>>
recVars == <<isRecording, isReplaying, recordingFrames, recordStartTime,
             replayStartTime, replayIndex>>
btnVars == <<recordBtn_disabled, stopBtn_disabled, playBtn_disabled>>
vars == <<players, ball, dragVars, toggleVars, recVars, renderQueued, pendingFrames, btnVars,
          lastOp, lastNow, inputs, controlCell, passLine>>

Times == 0..MaxSkewTime

\* ---- initPlayers ---------------------------------------------------------
\* blueFormation, as fractions of the pitch times 100
blueFormation ==
  << <<8, 50>>, <<22, 18>>, <<22, 38>>, <<22, 62>>, <<22, 82>>,
     <<40, 16>>, <<40, 35>>, <<40, 65>>, <<40, 84>>, <<64, 35>>, <<64, 65>> >>

redFormation == [i \in DOMAIN blueFormation |->
                   <<100 - blueFormation[i][1], blueFormation[i][2]>>]

\* the players pushed per team
Fielded == IF TeamSize < Len(blueFormation) THEN TeamSize ELSE Len(blueFormation)

initPlayers ==
  [i \in 1..(2 * Fielded) |->
     IF i <= Fielded
     THEN [id |-> i, team |-> "blue",
           x |-> (blueFormation[i][1] * LOGICAL_WIDTH) \div 100,
           y |-> (blueFormation[i][2] * LOGICAL_HEIGHT) \div 100,
           vx |-> INITIAL_SPEED * Unit, vy |-> 0]
     ELSE [id |-> i, team |-> "red",
           x |-> (redFormation[i - Fielded][1] * LOGICAL_WIDTH) \div 100,
           y |-> (redFormation[i - Fielded][2] * LOGICAL_HEIGHT) \div 100,
           vx |-> -(INITIAL_SPEED * Unit), vy |-> 0]]

\* ---- updateUI (buttons only; the status text is presentation) -------------
recordBtnDisabledValue(rec, rep) == rec \/ rep
stopBtnDisabledValue(rec, rep) == ~rec /\ ~rep
playBtnDisabledValue(rec, frames) == rec \/ Len(frames) = 0

updateUI(rec, rep, frames) ==
  /\ recordBtn_disabled' = recordBtnDisabledValue(rec, rep)
  /\ stopBtn_disabled' = stopBtnDisabledValue(rec, rep)
  /\ playBtn_disabled' = playBtnDisabledValue(rec, frames)

\* ---- requestRender: the value of renderQueued after a call ----------------
requestRender(queued) == TRUE

\* the callbacks pending after a call: window.requestAnimationFrame is reached
\* only when renderQueued was not set
scheduleFrameUnchecked(queued, pending) == pending + 1

scheduleFrame(queued, pending) == IF queued THEN pending ELSE pending + 1

\* ---- renderAll -----------------------------------------------------------
\* the while loop: advance the (0-based) cursor idx while the next frame's t <= tRel
advanceCursorFromStart(frames, idx, tRel) ==
  IF \E j \in 1..Len(frames) : frames[j].t <= tRel
  THEN (CHOOSE j \in 1..Len(frames) :
          /\ frames[j].t <= tRel
          /\ \A k \in 1..Len(frames) : frames[k].t <= tRel => k <= j) - 1
  ELSE 0

advanceCursorOneStep(frames, idx, tRel) ==
  IF idx + 1 < Len(frames) /\ frames[idx + 2].t <= tRel THEN idx + 1 ELSE idx

RECURSIVE advanceCursor(_, _, _)
advanceCursor(frames, idx, tRel) ==
  IF idx + 1 < Len(frames) /\ frames[idx + 2].t <= tRel
  THEN advanceCursor(frames, idx + 1, tRel)
  ELSE idx

\* frame.players.find((sp) => sp.id === p.id), then the four assignments
applySnapshotNoVelocity(p, frame) ==
  IF \E k \in DOMAIN frame.players : frame.players[k].id = p.id
  THEN LET snap == frame.players[CHOOSE k \in DOMAIN frame.players :
                                    /\ frame.players[k].id = p.id
                                    /\ \A m \in DOMAIN frame.players :
                                         frame.players[m].id = p.id => k <= m]
       IN [p EXCEPT !.x = snap.x, !.y = snap.y]
  ELSE p

applySnapshot(p, frame) ==
  IF \E k \in DOMAIN frame.players : frame.players[k].id = p.id
  THEN LET snap == frame.players[CHOOSE k \in DOMAIN frame.players :
                                    /\ frame.players[k].id = p.id
                                    /\ \A m \in DOMAIN frame.players :
                                         frame.players[m].id = p.id => k <= m]
       IN [p EXCEPT !.x = snap.x, !.y = snap.y, !.vx = snap.vx, !.vy = snap.vy]
  ELSE p

\* the frame pushed while recording
captureFrameSignSlip(now, ps, b) ==
  [t |-> recordStartTime - now,
   players |-> [i \in DOMAIN ps |->
                  [id |-> ps[i].id, x |-> ps[i].x, y |-> ps[i].y,
                   vx |-> ps[i].vx, vy |-> ps[i].vy]],
   ball |-> [x |-> b.x, y |-> b.y]]

captureFrame(now, ps, b) ==
  [t |-> now - recordStartTime,
   players |-> [i \in DOMAIN ps |->
                  [id |-> ps[i].id, x |-> ps[i].x, y |-> ps[i].y,
                   vx |-> ps[i].vx, vy |-> ps[i].vy]],
   ball |-> [x |-> b.x, y |-> b.y]]

\* recordingFrames.push(frame)
pushFrameOverwrite(frames, frame) == <<frame>>

pushFrameTwice(frames, frame) == Append(Append(frames, frame), frame)

pushFrame(frames, frame) == Append(frames, frame)

\* "Stop replay once we reach the last frame": replayIndex >= recordingFrames.length - 1
replayFinishedLate(idx, frames) == idx >= Len(frames)

replayFinished(idx, frames) == idx >= Len(frames) - 1

\* "keep driving frames until finished": isReplaying && replayIndex < recordingFrames.length - 1
keepDrivingNever(rep, idx, frames) == FALSE

keepDriving(rep, idx, frames) == rep /\ idx < Len(frames) - 1

renderAll(now, queuedBefore, pendingBefore) ==
  LET replayStep == isReplaying /\ Len(recordingFrames) > 0
      tRel == (now - replayStartTime) * REPLAY_SPEED
      idx == IF replayStep THEN advanceCursor(recordingFrames, replayIndex, tRel)
             ELSE replayIndex
      hasFrame == replayStep /\ idx < Len(recordingFrames)
      ps == IF hasFrame
            THEN [i \in DOMAIN players |-> applySnapshot(players[i], recordingFrames[idx + 1])]
            ELSE players
      b == IF hasFrame THEN recordingFrames[idx + 1].ball ELSE ball
      rep == IF replayStep /\ replayFinished(idx, recordingFrames) THEN FALSE ELSE isReplaying
      frames == IF isRecording /\ ~rep
                THEN pushFrame(recordingFrames, captureFrame(now, ps, b))
                ELSE recordingFrames
  IN /\ replayIndex' = idx
     /\ players' = ps
     /\ ball' = b
     /\ isReplaying' = rep
     /\ recordingFrames' = frames
     /\ renderQueued' = IF keepDriving(rep, idx, frames)
                        THEN requestRender(queuedBefore) ELSE queuedBefore
     /\ pendingFrames' = IF keepDriving(rep, idx, frames)
                         THEN scheduleFrame(queuedBefore, pendingBefore) ELSE pendingBefore
     /\ UNCHANGED <<isRecording, recordStartTime, replayStartTime>>

\* ---- the animation-frame callback of requestRender -----------------------
\* (ts) => { renderQueued = false; renderAll(ts); }
Tick(ts) ==
  /\ pendingFrames > 0
  /\ isRecording => Len(recordingFrames) < MaxFrames
  /\ renderAll(ts, FALSE, pendingFrames - 1)
  /\ lastOp' = "tick"
  /\ lastNow' = ts
  /\ UNCHANGED <<dragVars, toggleVars, btnVars>>

\* ---- window resize: setupCanvasSize(); requestRender() -------------------
Resize ==
  /\ renderQueued' = requestRender(renderQueued)
  /\ pendingFrames' = scheduleFrame(renderQueued, pendingFrames)
  /\ lastOp' = "other"
  /\ UNCHANGED <<players, ball, dragVars, toggleVars, recVars, btnVars, lastNow>>

\* ---- initRecordingControls: the three click handlers ---------------------
\* A click reaches a handler only while its button is not disabled; a click on
\* a disabled button is dropped by the browser and changes nothing.
recordBtnClickUnguarded(now) ==
  /\ recordingFrames' = <<>>
  /\ isRecording' = TRUE
  /\ recordStartTime' = now
  /\ updateUI(TRUE, isReplaying, <<>>)
  /\ renderQueued' = requestRender(renderQueued)
  /\ pendingFrames' = scheduleFrame(renderQueued, pendingFrames)
  /\ lastNow' = now
  /\ UNCHANGED <<isReplaying, replayStartTime, replayIndex>>

recordBtnClickKeepFrames(now) ==
  IF recordBtn_disabled \/ isReplaying
  THEN UNCHANGED <<recVars, btnVars, renderQueued, pendingFrames, lastNow>>
  ELSE /\ isRecording' = TRUE
       /\ recordStartTime' = now
       /\ updateUI(TRUE, isReplaying, recordingFrames)
       /\ renderQueued' = requestRender(renderQueued)
       /\ pendingFrames' = scheduleFrame(renderQueued, pendingFrames)
       /\ lastNow' = now
       /\ UNCHANGED <<recordingFrames, isReplaying, replayStartTime, replayIndex>>

recordBtnClick(now) ==
  IF recordBtn_disabled \/ isReplaying
  THEN UNCHANGED <<recVars, btnVars, renderQueued, pendingFrames, lastNow>>
  ELSE /\ recordingFrames' = <<>>
       /\ isRecording' = TRUE
       /\ recordStartTime' = now
       /\ updateUI(TRUE, isReplaying, <<>>)
       /\ renderQueued' = requestRender(renderQueued)
       /\ pendingFrames' = scheduleFrame(renderQueued, pendingFrames)
       /\ lastNow' = now
       /\ UNCHANGED <<isReplaying, replayStartTime, replayIndex>>

stopBtnClickRecordingOnly ==
  IF stopBtn_disabled
  THEN UNCHANGED <<recVars, btnVars>>
  ELSE /\ isRecording' = FALSE
       /\ updateUI(FALSE, isReplaying, recordingFrames)
       /\ UNCHANGED <<isReplaying, recordingFrames, recordStartTime, replayStartTime,
                      replayIndex>>

stopBtnClick ==
  IF stopBtn_disabled
  THEN UNCHANGED <<recVars, btnVars>>
  ELSE /\ isRecording' = FALSE
       /\ isReplaying' = FALSE
       /\ updateUI(FALSE, FALSE, recordingFrames)
       /\ UNCHANGED <<recordingFrames, recordStartTime, replayStartTime, replayIndex>>

playBtnClickUnguarded(now) ==
  IF Len(recordingFrames) = 0
  THEN UNCHANGED <<recVars, btnVars, renderQueued, pendingFrames, lastNow>>
  ELSE /\ isRecording' = FALSE
       /\ isReplaying' = TRUE
       /\ replayIndex' = 0
       /\ replayStartTime' = now
       /\ updateUI(FALSE, TRUE, recordingFrames)
       /\ renderQueued' = requestRender(renderQueued)
       /\ pendingFrames' = scheduleFrame(renderQueued, pendingFrames)
       /\ lastNow' = now
       /\ UNCHANGED <<recordingFrames, recordStartTime>>

playBtnClick(now) ==
  IF playBtn_disabled \/ Len(recordingFrames) = 0
  THEN UNCHANGED <<recVars, btnVars, renderQueued, pendingFrames, lastNow>>
  ELSE /\ isRecording' = FALSE
       /\ isReplaying' = TRUE
       /\ replayIndex' = 0
       /\ replayStartTime' = now
       /\ updateUI(FALSE, TRUE, recordingFrames)
       /\ renderQueued' = requestRender(renderQueued)
       /\ pendingFrames' = scheduleFrame(renderQueued, pendingFrames)
       /\ lastNow' = now
       /\ UNCHANGED <<recordingFrames, recordStartTime>>

ClickRecord(now) ==
  /\ recordBtnClick(now)
  /\ lastOp' = "record"
  /\ UNCHANGED <<players, ball, dragVars, toggleVars>>

ClickStop ==
  /\ stopBtnClick
  /\ lastOp' = "stop"
  /\ UNCHANGED <<players, ball, dragVars, toggleVars, renderQueued, pendingFrames, lastNow>>

ClickPlay(now) ==
  /\ playBtnClick(now)
  /\ lastOp' = "play"
  /\ UNCHANGED <<players, ball, dragVars, toggleVars>>

\* ---- arithmetic helpers ---------------------------------------------------
\* JavaScript numbers are IEEE doubles: every operation yields the double
\* nearest to the exact result.  On the model's grid every quotient and square
\* root is the grid point nearest to the exact result.
\* division rounding to the nearest integer (b > 0)
DivR(a, b) ==
  IF a >= 0 THEN (2 * a + b) \div (2 * b) ELSE -((2 * (-a) + b) \div (2 * b))

RECURSIVE SqrtIter(_, _)
SqrtIter(n, x) ==
  LET y == (x + n \div x) \div 2
  IN IF y >= x THEN x ELSE SqrtIter(n, y)

\* Math.sqrt on the model's grid: the integer part of the square root
Sqrt(n) == IF n = 0 THEN 0 ELSE SqrtIter(n, n)

\* Math.sqrt: the integer nearest to the square root
SqrtR(n) ==
  LET r == Sqrt(n)
  IN IF n - r * r <= (r + 1) * (r + 1) - n THEN r ELSE r + 1

clampMinOnly(v, min, max) == IF v < min THEN min ELSE v

clamp(v, min, max) == IF v < min THEN min ELSE IF v > max THEN max ELSE v

\* players.find((p) => p.id === id): the index of the first player with that id, or null
findPlayer(id) ==
  IF \E i \in DOMAIN players : players[i].id = id
  THEN CHOOSE i \in DOMAIN players :
         /\ players[i].id = id
         /\ \A j \in DOMAIN players : players[j].id = id => i <= j
  ELSE null

\* ---- pointer positions ----------------------------------------------------
\* getPointerPosition with the canvas laid out at its logical size (scale 1):
\* the blue goalkeeper's centre, a point on its initial arrow tip, and the
\* ball's initial position.
PointerPositions ==
  { [lx |-> 84 * Unit, ly |-> 340 * Unit],
    [lx |-> 102 * Unit, ly |-> 340 * Unit],
    [lx |-> 525 * Unit, ly |-> 340 * Unit] }

\* mousemove and touchmove are listened to on the window, so a move can be
\* reported from outside the pitch: the goalkeeper's centre, its initial arrow
\* tip, and a point left of and below the pitch.
MovePositions ==
  { [lx |-> 84 * Unit, ly |-> 340 * Unit],
    [lx |-> 102 * Unit, ly |-> 340 * Unit],
    [lx |-> -(20 * Unit), ly |-> 690 * Unit] }

distSq(ax, ay, bx, by) == (ax - bx) * (ax - bx) + (ay - by) * (ay - by)

\* ---- onPointerDown --------------------------------------------------------
ballHit(pos) ==
  distSq(ball.x, ball.y, pos.lx, pos.ly)
    <= ((BALL_RADIUS * BALL_HIT_x10 * Unit) \div 10) * ((BALL_RADIUS * BALL_HIT_x10 * Unit) \div 10)

centerHitRadius == PLAYER_RADIUS * HIT_RADIUS_FACTOR * Unit
arrowHitRadius == (PLAYER_RADIUS * ARROW_HIT_RADIUS_FACTOR_x10 * Unit) \div 10

centerDistSq(i, pos) == distSq(players[i].x, players[i].y, pos.lx, pos.ly)

\* the arrow tip of player i: centre + unit velocity * maxArrowLen * min(1, speed / MAX_SPEED_VIS)
arrowTip(i) ==
  LET p == players[i]
      speedSq == p.vx * p.vx + p.vy * p.vy
      speed == SqrtR(speedSq)
      maxArrowLen == (PLAYER_RADIUS * MAX_ARROW_LEN_x10 * Unit) \div 10
  IN IF speedSq <= (MAX_SPEED_VIS * Unit) * (MAX_SPEED_VIS * Unit)
     THEN [x |-> p.x + DivR(p.vx * maxArrowLen, MAX_SPEED_VIS * Unit),
           y |-> p.y + DivR(p.vy * maxArrowLen, MAX_SPEED_VIS * Unit)]
     ELSE [x |-> p.x + DivR(p.vx * maxArrowLen, speed),
           y |-> p.y + DivR(p.vy * maxArrowLen, speed)]

hasArrowAtLeast(i) == players[i].vx * players[i].vx + players[i].vy * players[i].vy >= Unit * Unit

hasArrow(i) == players[i].vx * players[i].vx + players[i].vy * players[i].vy > Unit * Unit

arrowDistSq(i, pos) == distSq(arrowTip(i).x, arrowTip(i).y, pos.lx, pos.ly)

\* the loop from the top-most player down keeps the nearest hit; of two equally
\* near hits the one met first (the higher index) stays
selectedPlayerForMove(pos) ==
  LET hits == {i \in DOMAIN players : centerDistSq(i, pos) <= centerHitRadius * centerHitRadius}
  IN IF hits = {} THEN null
     ELSE CHOOSE i \in hits : \A j \in hits :
            \/ centerDistSq(i, pos) < centerDistSq(j, pos)
            \/ (centerDistSq(i, pos) = centerDistSq(j, pos) /\ i >= j)

selectedPlayerForArrow(pos) ==
  LET hits == {i \in DOMAIN players :
                 /\ arrowsEnabled
                 /\ hasArrow(i)
                 /\ arrowDistSq(i, pos) <= arrowHitRadius * arrowHitRadius}
  IN IF hits = {} THEN null
     ELSE CHOOSE i \in hits : \A j \in hits :
            \/ arrowDistSq(i, pos) < arrowDistSq(j, pos)
            \/ (arrowDistSq(i, pos) = arrowDistSq(j, pos) /\ i >= j)

onPointerDown(pos) ==
  LET foundMove == selectedPlayerForMove(pos)
      foundArrow == IF arrowsEnabled THEN selectedPlayerForArrow(pos) ELSE null
  IN IF isReplaying
     THEN UNCHANGED dragVars
     ELSE IF ballModeEnabled /\ ballHit(pos)
     THEN /\ draggingBall' = TRUE
          /\ draggingPlayerId' = null
          /\ draggingArrowPlayerId' = null
          /\ UNCHANGED <<dragOffsetX, dragOffsetY, hoveredPlayerId>>
     ELSE IF foundArrow # null
     THEN /\ draggingArrowPlayerId' = players[foundArrow].id
          /\ draggingPlayerId' = null
          /\ UNCHANGED <<dragOffsetX, dragOffsetY, hoveredPlayerId, draggingBall>>
     ELSE IF foundMove # null
     THEN /\ draggingPlayerId' = players[foundMove].id
          /\ draggingArrowPlayerId' = null
          /\ dragOffsetX' = pos.lx - players[foundMove].x
          /\ dragOffsetY' = pos.ly - players[foundMove].y
          /\ UNCHANGED <<hoveredPlayerId, draggingBall>>
     ELSE UNCHANGED dragVars

PointerDown(pos) ==
  /\ onPointerDown(pos)
  /\ lastOp' = "other"
  /\ UNCHANGED <<players, ball, toggleVars, recVars, renderQueued, pendingFrames, btnVars, lastNow>>

\* ---- onPointerMove --------------------------------------------------------
\* the velocity an arrow drag writes for a pointer at (dx, dy) from the player
arrowVelocityUnclamped(dx, dy) ==
  IF dx * dx + dy * dy < Unit * Unit THEN [vx |-> 0, vy |-> 0]
  ELSE [vx |-> dx, vy |-> dy]

arrowVelocity(dx, dy) ==
  LET dSq == dx * dx + dy * dy
      dist == SqrtR(dSq)
  IN IF dSq < Unit * Unit THEN [vx |-> 0, vy |-> 0]
     ELSE IF dSq <= (MAX_SPEED_VIS * Unit) * (MAX_SPEED_VIS * Unit)
     THEN [vx |-> dx, vy |-> dy]
     ELSE [vx |-> DivR(dx * MAX_SPEED_VIS * Unit, dist),
           vy |-> DivR(dy * MAX_SPEED_VIS * Unit, dist)]

\* the hover search: the top-most player within the hit radius
hoverTarget(pos) ==
  LET hits == {i \in DOMAIN players : centerDistSq(i, pos) <= centerHitRadius * centerHitRadius}
  IN IF hits = {} THEN null
     ELSE players[CHOOSE i \in hits : \A j \in hits : i >= j].id

onPointerMove(pos) ==
  IF isReplaying
  THEN UNCHANGED <<players, ball, dragVars, renderQueued, pendingFrames>>
  ELSE IF ballModeEnabled /\ draggingBall
  THEN /\ ball' = [x |-> clamp(pos.lx, (BALL_RADIUS * BALL_MARGIN_x10 * Unit) \div 10,
                              LOGICAL_WIDTH - (BALL_RADIUS * BALL_MARGIN_x10 * Unit) \div 10),
                   y |-> clamp(pos.ly, (BALL_RADIUS * BALL_MARGIN_x10 * Unit) \div 10,
                              LOGICAL_HEIGHT - (BALL_RADIUS * BALL_MARGIN_x10 * Unit) \div 10)]
       /\ renderQueued' = requestRender(renderQueued)
       /\ pendingFrames' = scheduleFrame(renderQueued, pendingFrames)
       /\ UNCHANGED <<players, dragVars>>
  ELSE IF arrowsEnabled /\ draggingArrowPlayerId # null
  THEN LET i == findPlayer(draggingArrowPlayerId)
       IN IF i = null
          THEN UNCHANGED <<players, ball, dragVars, renderQueued, pendingFrames>>
          ELSE LET v == arrowVelocity(pos.lx - players[i].x, pos.ly - players[i].y)
               IN /\ players' = [players EXCEPT ![i].vx = v.vx, ![i].vy = v.vy]
                  /\ renderQueued' = requestRender(renderQueued)
                  /\ pendingFrames' = scheduleFrame(renderQueued, pendingFrames)
                  /\ UNCHANGED <<ball, dragVars>>
  ELSE IF draggingPlayerId # null
  THEN LET i == findPlayer(draggingPlayerId)
       IN IF i = null
          THEN UNCHANGED <<players, ball, dragVars, renderQueued, pendingFrames>>
          ELSE /\ players' =
                    [players EXCEPT
                       ![i].x = clamp(pos.lx - dragOffsetX,
                                      (PLAYER_RADIUS * PLAYER_MARGIN_x10 * Unit) \div 10,
                                      LOGICAL_WIDTH - (PLAYER_RADIUS * PLAYER_MARGIN_x10 * Unit) \div 10),
                       ![i].y = clamp(pos.ly - dragOffsetY,
                                      (PLAYER_RADIUS * PLAYER_MARGIN_x10 * Unit) \div 10,
                                      LOGICAL_HEIGHT - (PLAYER_RADIUS * PLAYER_MARGIN_x10 * Unit) \div 10)]
               /\ renderQueued' = requestRender(renderQueued)
               /\ pendingFrames' = scheduleFrame(renderQueued, pendingFrames)
               /\ UNCHANGED <<ball, dragVars>>
  ELSE IF hoverTarget(pos) = hoveredPlayerId
  THEN UNCHANGED <<players, ball, dragVars, renderQueued, pendingFrames>>
  ELSE /\ hoveredPlayerId' = hoverTarget(pos)
       /\ renderQueued' = requestRender(renderQueued)
       /\ pendingFrames' = scheduleFrame(renderQueued, pendingFrames)
       /\ UNCHANGED <<players, ball, draggingPlayerId, dragOffsetX, dragOffsetY,
                      draggingArrowPlayerId, draggingBall>>

PointerMove(pos) ==
  /\ onPointerMove(pos)
  /\ lastOp' = "other"
  /\ UNCHANGED <<toggleVars, recVars, btnVars, lastNow>>

\* ---- onPointerUp, onPointerLeave -------------------------------------------
onPointerUpUnguarded ==
  IF draggingPlayerId = null /\ draggingArrowPlayerId = null /\ ~draggingBall
  THEN UNCHANGED dragVars
  ELSE /\ draggingPlayerId' = null
       /\ draggingArrowPlayerId' = null
       /\ draggingBall' = FALSE
       /\ UNCHANGED <<dragOffsetX, dragOffsetY, hoveredPlayerId>>

onPointerUp ==
  IF isReplaying
  THEN UNCHANGED dragVars
  ELSE IF draggingPlayerId = null /\ draggingArrowPlayerId = null /\ ~draggingBall
  THEN UNCHANGED dragVars
  ELSE /\ draggingPlayerId' = null
       /\ draggingArrowPlayerId' = null
       /\ draggingBall' = FALSE
       /\ UNCHANGED <<dragOffsetX, dragOffsetY, hoveredPlayerId>>

PointerUp ==
  /\ onPointerUp
  /\ lastOp' = "up"
  /\ UNCHANGED <<players, ball, toggleVars, recVars, renderQueued, pendingFrames, btnVars, lastNow>>

PointerLeave ==
  /\ hoveredPlayerId' = null
  /\ lastOp' = "other"
  /\ UNCHANGED <<players, ball, draggingPlayerId, dragOffsetX, dragOffsetY,
                 draggingArrowPlayerId, draggingBall, toggleVars, recVars,
                 renderQueued, pendingFrames, btnVars, lastNow>>

\* ---- the three checkboxes (change handlers) --------------------------------
ToggleArrows ==
  /\ arrowsEnabled' = ~arrowsEnabled
  /\ draggingArrowPlayerId' = IF ~arrowsEnabled' THEN null ELSE draggingArrowPlayerId
  /\ renderQueued' = requestRender(renderQueued)
  /\ pendingFrames' = scheduleFrame(renderQueued, pendingFrames)
  /\ lastOp' = "other"
  /\ UNCHANGED <<players, ball, draggingPlayerId, dragOffsetX, dragOffsetY,
                 hoveredPlayerId, draggingBall, ballModeEnabled, passLinesEnabled,
                 passCheckbox_disabled, recVars, btnVars, lastNow>>

ToggleBallModeKeepsSubFeatures ==
  /\ ballModeEnabled' = ~ballModeEnabled
  /\ IF ~ballModeEnabled'
     THEN /\ passCheckbox_disabled' = TRUE
          /\ UNCHANGED <<draggingBall, passLinesEnabled>>
     ELSE /\ passCheckbox_disabled' = FALSE
          /\ UNCHANGED <<draggingBall, passLinesEnabled>>
  /\ renderQueued' = requestRender(renderQueued)
  /\ pendingFrames' = scheduleFrame(renderQueued, pendingFrames)
  /\ lastOp' = "other"
  /\ UNCHANGED <<players, ball, draggingPlayerId, dragOffsetX, dragOffsetY,
                 hoveredPlayerId, draggingArrowPlayerId, arrowsEnabled, recVars,
                 btnVars, lastNow>>

ToggleBallMode ==
  /\ ballModeEnabled' = ~ballModeEnabled
  /\ IF ~ballModeEnabled'
     THEN /\ draggingBall' = FALSE
          /\ passLinesEnabled' = FALSE
          /\ passCheckbox_disabled' = TRUE
     ELSE /\ passCheckbox_disabled' = FALSE
          /\ UNCHANGED <<draggingBall, passLinesEnabled>>
  /\ renderQueued' = requestRender(renderQueued)
  /\ pendingFrames' = scheduleFrame(renderQueued, pendingFrames)
  /\ lastOp' = "other"
  /\ UNCHANGED <<players, ball, draggingPlayerId, dragOffsetX, dragOffsetY,
                 hoveredPlayerId, draggingArrowPlayerId, arrowsEnabled, recVars,
                 btnVars, lastNow>>

\* the checkbox can be changed only while it is not disabled
TogglePassLines ==
  /\ ~passCheckbox_disabled
  /\ passLinesEnabled' = ~passLinesEnabled
  /\ renderQueued' = requestRender(renderQueued)
  /\ pendingFrames' = scheduleFrame(renderQueued, pendingFrames)
  /\ lastOp' = "other"
  /\ UNCHANGED <<players, ball, dragVars, arrowsEnabled, ballModeEnabled,
                 passCheckbox_disabled, recVars, btnVars, lastNow>>

\* ---- arrivalCostSquared ----------------------------------------------------
\* costs are squares of distances, so they count in 1/(Unit*Unit)
Infinity == -1
NaN == -2
MAX_V_EFFECT == 25
\* VELOCITY_INFLUENCE = 0.6, times 10
VELOCITY_INFLUENCE_x10 == 6

isFinite(v) == v # Infinity /\ v # NaN

Max(a, b) == IF a >= b THEN a ELSE b
Min(a, b) == IF a <= b THEN a ELSE b

arrivalCostSquaredNoFloor(p, lx, ly) ==
  LET dx == lx - p.x
      dy == ly - p.y
      dSq == dx * dx + dy * dy
      dist == SqrtR(dSq)
      speedAlong == DivR(p.vx * dx + p.vy * dy, dist)
      clampedSpeed == Max(-(MAX_V_EFFECT * Unit), Min(MAX_V_EFFECT * Unit, speedAlong))
      biasedDist == dist - DivR(VELOCITY_INFLUENCE_x10 * clampedSpeed, 10)
  IN IF dSq = 0 THEN 0 ELSE biasedDist * biasedDist

arrivalCostSquared(p, lx, ly) ==
  LET dx == lx - p.x
      dy == ly - p.y
      dSq == dx * dx + dy * dy
      dist == SqrtR(dSq)
      \* p.vx * dirX + p.vy * dirY with dirX = dx / dist, dirY = dy / dist
      speedAlong == DivR(p.vx * dx + p.vy * dy, dist)
      clampedSpeed == Max(-(MAX_V_EFFECT * Unit), Min(MAX_V_EFFECT * Unit, speedAlong))
      biasedDist == dist - DivR(VELOCITY_INFLUENCE_x10 * clampedSpeed, 10)
      effectiveDist == Max(0, biasedDist)
  IN IF dSq = 0 THEN 0 ELSE effectiveDist * effectiveDist

\* ---- drawControlAreas: one cell of the control map --------------------------
\* START_FADE_RATIO_SQUARED = 0.45 and FULL_WHITE_RATIO_SQUARED = 0.9, times 100
START_FADE_RATIO_SQUARED_x100 == 45
FULL_WHITE_RATIO_SQUARED_x100 == 90
\* BALL_SPEED = 3.5, times 2
BALL_SPEED_x2 == 7

\* the cost of one player for the cell: the arrival cost, or the squared distance
cellCostSq(p, lx, ly) ==
  IF arrowsEnabled THEN arrivalCostSquared(p, lx, ly)
  ELSE (p.x - lx) * (p.x - lx) + (p.y - ly) * (p.y - ly)

\* let min = Infinity; for (const p of teamPlayers) if (costSq < min) min = costSq;
\* the loop from player k on, acc the minimum so far
RECURSIVE minTeamSq(_, _, _, _, _)
minTeamSq(team, lx, ly, k, acc) ==
  IF k > Len(players) THEN acc
  ELSE LET costSq == cellCostSq(players[k], lx, ly)
       IN minTeamSq(team, lx, ly, k + 1,
                    IF players[k].team = team /\ (acc = Infinity \/ costSq < acc)
                    THEN costSq ELSE acc)

blueControlsStrict(minBlueSq, minRedSq) == minBlueSq < minRedSq

blueControls(minBlueSq, minRedSq) == minBlueSq <= minRedSq

\* the contest scalar t in hundredths; ratioSq = minSq / maxSq is NaN for 0 / 0,
\* and every comparison with NaN is false
contestScalar(minSq, maxSq) ==
  LET ratioIsNaN == maxSq = 0
  IN IF ~ratioIsNaN /\ 100 * minSq <= START_FADE_RATIO_SQUARED_x100 * maxSq THEN 0
     ELSE IF ~ratioIsNaN /\ 100 * minSq >= FULL_WHITE_RATIO_SQUARED_x100 * maxSq THEN 100
     ELSE IF ratioIsNaN THEN NaN
     ELSE \* (ratioSq - START) / (FULL - START), numerator and denominator reduced by 5
          DivR((100 \div 5) * (100 * minSq - START_FADE_RATIO_SQUARED_x100 * maxSq),
               ((FULL_WHITE_RATIO_SQUARED_x100 - START_FADE_RATIO_SQUARED_x100) \div 5) * maxSq)

\* Math.sqrt(minSq) < distBall / BALL_SPEED, compared exactly on the squares
beforeBall(minSq, distBallSq) ==
  isFinite(minSq) /\ BALL_SPEED_x2 * BALL_SPEED_x2 * minSq < 4 * distBallSq

\* tBlue <= tRed with Infinity for an empty team
arrivesNoLater(minBlueSq, minRedSq) ==
  IF ~isFinite(minRedSq) THEN TRUE
  ELSE IF ~isFinite(minBlueSq) THEN FALSE
  ELSE minBlueSq <= minRedSq

\* the neutral rule of ball mode: both teams arrive before the ball
bothBeforeBallEither(minBlueSq, minRedSq, distBallSq) ==
  beforeBall(minBlueSq, distBallSq) \/ beforeBall(minRedSq, distBallSq)

bothBeforeBall(minBlueSq, minRedSq, distBallSq) ==
  beforeBall(minBlueSq, distBallSq) /\ beforeBall(minRedSq, distBallSq)

\* no cell evaluated yet, or a cell that is skipped (continue)
NoCell ==
  [painted |-> FALSE, lx |-> 0, ly |-> 0, minBlueSq |-> Infinity, minRedSq |-> Infinity,
   ballMode |-> FALSE, winner |-> "none", t |-> 0]

\* the body of the two loops for the cell centre (lx, ly): the team that is
\* painted ("neutral" for the white of ball mode) and, in plain mode, the
\* contest scalar t the colour is blended with
controlValue(lx, ly) ==
  LET minBlueSq == minTeamSq("blue", lx, ly, 1, Infinity)
      minRedSq == minTeamSq("red", lx, ly, 1, Infinity)
      distBallSq == (lx - ball.x) * (lx - ball.x) + (ly - ball.y) * (ly - ball.y)
      cell == [painted |-> TRUE, lx |-> lx, ly |-> ly,
               minBlueSq |-> minBlueSq, minRedSq |-> minRedSq,
               ballMode |-> ballModeEnabled, winner |-> "none", t |-> 0]
  IN IF ~isFinite(minBlueSq) /\ ~isFinite(minRedSq)
     THEN [cell EXCEPT !.painted = FALSE]
     ELSE IF ~ballModeEnabled
     THEN IF ~isFinite(minRedSq) THEN [cell EXCEPT !.winner = "blue"]
          ELSE IF ~isFinite(minBlueSq) THEN [cell EXCEPT !.winner = "red"]
          ELSE [cell EXCEPT
                  !.winner = IF blueControls(minBlueSq, minRedSq) THEN "blue" ELSE "red",
                  !.t = contestScalar(Min(minBlueSq, minRedSq), Max(minBlueSq, minRedSq))]
     ELSE IF bothBeforeBall(minBlueSq, minRedSq, distBallSq)
     THEN [cell EXCEPT !.winner = "neutral"]
     ELSE IF arrivesNoLater(minBlueSq, minRedSq)
     THEN [cell EXCEPT !.winner = IF isFinite(minBlueSq) THEN "blue" ELSE "neutral"]
     ELSE [cell EXCEPT !.winner = IF isFinite(minRedSq) THEN "red" ELSE "neutral"]

\* no pass examined yet
NoPass == [examined |-> FALSE, target |-> 0, safe |-> FALSE]

EvaluateCell(cell) ==
  /\ controlCell' = controlValue(cell.lx, cell.ly)
  /\ passLine' = NoPass
  /\ UNCHANGED <<players, ball, dragVars, toggleVars, recVars, renderQueued, pendingFrames, btnVars,
                 lastOp, lastNow, inputs>>

\* ---- canPassOnGround --------------------------------------------------------
\* segLenSq < 1e-4, segLenSq counted in 1/(Unit*Unit)
PASS_EPSILON_SQ_x10000 == 1

degeneratePass(segLenSq) == (10000 \div (Unit * Unit)) * segLenSq < PASS_EPSILON_SQ_x10000

\* the clamped projection of the opponent on the segment and the ball's way to it
passTestPoint(fromX, fromY, target, op) ==
  LET dx == target.x - fromX
      dy == target.y - fromY
      segLenSq == dx * dx + dy * dy
      dot == (op.x - fromX) * dx + (op.y - fromY) * dy
      \* t = dot / segLenSq clamped to [0, 1], kept as the numerator over segLenSq
      tNum == IF dot < 0 THEN 0 ELSE IF dot > segLenSq THEN segLenSq ELSE dot
  IN [px |-> fromX + DivR(dx * tNum, segLenSq),
      py |-> fromY + DivR(dy * tNum, segLenSq),
      distanceAlongPass |-> DivR(SqrtR(segLenSq) * tNum, segLenSq)]

opponentInterceptsStrict(fromX, fromY, target, op) ==
  LET pt == passTestPoint(fromX, fromY, target, op)
      tOpponent == SqrtR(arrivalCostSquared(op, pt.px, pt.py))
  IN BALL_SPEED_x2 * tOpponent < 2 * pt.distanceAlongPass

\* the body of the loop for one opponent: tOpponent <= tBall, with
\* tBall = distanceAlongPass / BALL_SPEED
opponentIntercepts(fromX, fromY, target, op) ==
  LET pt == passTestPoint(fromX, fromY, target, op)
      tOpponent == SqrtR(arrivalCostSquared(op, pt.px, pt.py))
  IN BALL_SPEED_x2 * tOpponent <= 2 * pt.distanceAlongPass

canPassOnGround(fromX, fromY, target, opponents) ==
  LET segLenSq == (target.x - fromX) * (target.x - fromX)
                    + (target.y - fromY) * (target.y - fromY)
  IN IF degeneratePass(segLenSq) THEN FALSE
     ELSE \A k \in DOMAIN opponents :
            ~opponentIntercepts(fromX, fromY, target, opponents[k])

\* players.filter((p) => p.team === team), in storage order
RECURSIVE teamPlayers(_, _)
teamPlayers(team, k) ==
  IF k > Len(players) THEN <<>>
  ELSE IF players[k].team = team
       THEN <<players[k]>> \o teamPlayers(team, k + 1)
       ELSE teamPlayers(team, k + 1)

otherTeam(team) == IF team = "blue" THEN "red" ELSE "blue"

\* drawPassLines: the pass from the ball to players[i], the other team defending;
\* controlCell and passLine hold the one output looked at last
EvaluatePass(i) ==
  /\ ballModeEnabled /\ passLinesEnabled
  /\ passLine' = [examined |-> TRUE, target |-> i,
                  safe |-> canPassOnGround(ball.x, ball.y, players[i],
                                           teamPlayers(otherTeam(players[i].team), 1))]
  /\ controlCell' = NoCell
  /\ UNCHANGED <<players, ball, dragVars, toggleVars, recVars, renderQueued, pendingFrames, btnVars,
                 lastOp, lastNow, inputs>>

\* ---- the page after DOMContentLoaded (first renderAll() done) -------------
Init ==
  /\ players = initPlayers
  /\ ball = [x |-> LOGICAL_WIDTH \div 2, y |-> LOGICAL_HEIGHT \div 2]
  /\ draggingPlayerId = null /\ dragOffsetX = 0 /\ dragOffsetY = 0
  /\ hoveredPlayerId = null /\ draggingArrowPlayerId = null /\ draggingBall = FALSE
  /\ arrowsEnabled = TRUE /\ ballModeEnabled = FALSE /\ passLinesEnabled = FALSE
  /\ passCheckbox_disabled = TRUE
  /\ isRecording = FALSE /\ isReplaying = FALSE /\ recordingFrames = <<>>
  /\ recordStartTime = 0 /\ replayStartTime = 0 /\ replayIndex = 0
  /\ renderQueued = FALSE
  /\ pendingFrames = 0
  /\ recordBtn_disabled = FALSE /\ stopBtn_disabled = TRUE /\ playBtn_disabled = TRUE
  /\ lastOp = "other"
  /\ lastNow = 0
  /\ inputs = 0
  /\ controlCell = NoCell
  /\ passLine = NoPass

Input(A) ==
  /\ inputs < MaxInputs
  /\ inputs' = inputs + 1
  /\ A
  /\ UNCHANGED <<controlCell, passLine>>

Timeline(A) ==
  /\ A
  /\ UNCHANGED <<inputs, controlCell, passLine>>

\* timestamps never run backward: performance.now() and the animation-frame
\* timestamps are read off one non-decreasing clock
Next ==
  \/ \E ts \in lastNow..MaxTime : Timeline(Tick(ts))
  \/ Timeline(Resize)
  \/ \E now \in lastNow..MaxTime : Timeline(ClickRecord(now))
  \/ Timeline(ClickStop)
  \/ \E now \in lastNow..MaxTime : Timeline(ClickPlay(now))
  \/ \E pos \in PointerPositions : Input(PointerDown(pos))
  \/ \E pos \in MovePositions : Input(PointerMove(pos))
  \/ Input(PointerUp)
  \/ Input(PointerLeave)
  \/ Input(ToggleArrows)
  \/ Input(ToggleBallMode)
  \/ Input(TogglePassLines)

Spec == Init /\ [][Next]_vars

\* timestamps in any order (a tick may be handed an earlier timestamp)
NextAnyTime ==
  \/ \E ts \in Times : Timeline(Tick(ts))
  \/ Timeline(Resize)
  \/ \E now \in Times : Timeline(ClickRecord(now))
  \/ Timeline(ClickStop)
  \/ \E now \in Times : Timeline(ClickPlay(now))
  \/ \E pos \in PointerPositions : Input(PointerDown(pos))
  \/ \E pos \in MovePositions : Input(PointerMove(pos))
  \/ Input(PointerUp)
  \/ Input(PointerLeave)
  \/ Input(ToggleArrows)
  \/ Input(ToggleBallMode)
  \/ Input(TogglePassLines)

SpecAnyTime == Init /\ [][NextAnyTime]_vars

\* every animation-frame timestamp is later than every timestamp read before
\* it (one callback per frame: renderQueued lets one callback be pending)
NextStrictTicks ==
  \/ \E ts \in (lastNow + 1)..MaxTime : Timeline(Tick(ts))
  \/ Timeline(Resize)
  \/ \E now \in lastNow..MaxTime : Timeline(ClickRecord(now))
  \/ Timeline(ClickStop)
  \/ \E now \in lastNow..MaxTime : Timeline(ClickPlay(now))
  \/ \E pos \in PointerPositions : Input(PointerDown(pos))
  \/ \E pos \in MovePositions : Input(PointerMove(pos))
  \/ Input(PointerUp)
  \/ Input(PointerLeave)
  \/ Input(ToggleArrows)
  \/ Input(ToggleBallMode)
  \/ Input(TogglePassLines)

SpecStrictTicks == Init /\ [][NextStrictTicks]_vars

\* ---- the control map over a small field -----------------------------------
\* positions, velocities, cell centres and ball positions the players, the
\* cells and the ball are drawn from
FieldPoints ==
  { [x |-> 10 * Unit, y |-> 50 * Unit],
    [x |-> 90 * Unit, y |-> 50 * Unit],
    [x |-> 45 * Unit, y |-> 50 * Unit] }

FieldVelocities ==
  { [vx |-> 0, vy |-> 0],
    [vx |-> 25 * Unit, vy |-> 0],
    [vx |-> -(25 * Unit), vy |-> 20 * Unit] }

FieldCells ==
  { [lx |-> 50 * Unit, ly |-> 50 * Unit],
    [lx |-> 45 * Unit, ly |-> 50 * Unit],
    [lx |-> 50 * Unit, ly |-> 80 * Unit] }

FieldBalls ==
  { [x |-> 10 * Unit, y |-> 50 * Unit],
    [x |-> 50 * Unit, y |-> 80 * Unit] }

\* MinFieldPlayers..MaxFieldPlayers players, of either team, in any order
FieldPlayers(n) ==
  { [i \in 1..n |-> [id |-> i, team |-> f[i][1], x |-> f[i][2].x, y |-> f[i][2].y,
                     vx |-> f[i][3].vx, vy |-> f[i][3].vy]] :
      f \in [1..n -> {"blue", "red"} \X FieldPoints \X FieldVelocities] }

InitField ==
  /\ \E n \in MinFieldPlayers..MaxFieldPlayers : players \in FieldPlayers(n)
  /\ ball \in FieldBalls
  /\ draggingPlayerId = null /\ dragOffsetX = 0 /\ dragOffsetY = 0
  /\ hoveredPlayerId = null /\ draggingArrowPlayerId = null /\ draggingBall = FALSE
  /\ arrowsEnabled \in BOOLEAN /\ ballModeEnabled \in BOOLEAN
  /\ passLinesEnabled = ballModeEnabled
  /\ passCheckbox_disabled = ~ballModeEnabled
  /\ isRecording = FALSE /\ isReplaying = FALSE /\ recordingFrames = <<>>
  /\ recordStartTime = 0 /\ replayStartTime = 0 /\ replayIndex = 0
  /\ renderQueued = FALSE
  /\ pendingFrames = 0
  /\ recordBtn_disabled = FALSE /\ stopBtn_disabled = TRUE /\ playBtn_disabled = TRUE
  /\ lastOp = "other"
  /\ lastNow = 0
  /\ inputs = 0
  /\ controlCell = NoCell
  /\ passLine = NoPass

NextField ==
  \/ \E cell \in FieldCells : EvaluateCell(cell)
  \/ \E i \in 1..MaxFieldPlayers : i \in DOMAIN players /\ EvaluatePass(i)

SpecField == InitField /\ [][NextField]_vars

\* ---- animation frames are delivered ----------------------------------------
\* the t of the final frame of the timeline
LastFrameTime == recordingFrames[Len(recordingFrames)].t

\* a timestamp at which the running replay has played its whole clip
PastClipEnd(ts) ==
  /\ Len(recordingFrames) > 0
  /\ (ts - replayStartTime) * REPLAY_SPEED >= LastFrameTime

\* the clock of the model can still reach the end of the clip
ReplayCanFinish == \E ts \in lastNow..MaxTime : PastClipEnd(ts)

\* the pending animation-frame callback of a replay runs with a timestamp past
\* the end of the clip
LateTick ==
  \E ts \in lastNow..MaxTime :
    /\ isReplaying
    /\ PastClipEnd(ts)
    /\ Timeline(Tick(ts))

\* the browser runs a pending animation-frame callback, and its clock goes on
SpecFair == Spec /\ WF_vars(LateTick)

\* ---- the page after an earlier arrow drag ----------------------------------
\* onPointerMove writes (dx, dy) for a pointer at distance 1..MAX_SPEED_VIS from
\* the dragged player: the first player's velocity is as constructed, or was left
\* at speed exactly 1 by a drag that has been released and rendered.
SlowestArrowVelocity == [vx |-> Unit, vy |-> 0]

InitArrows ==
  /\ \E v \in {[vx |-> INITIAL_SPEED * Unit, vy |-> 0], SlowestArrowVelocity} :
       players = [initPlayers EXCEPT ![1].vx = v.vx, ![1].vy = v.vy]
  /\ ball = [x |-> LOGICAL_WIDTH \div 2, y |-> LOGICAL_HEIGHT \div 2]
  /\ draggingPlayerId = null /\ dragOffsetX = 0 /\ dragOffsetY = 0
  /\ hoveredPlayerId = null /\ draggingArrowPlayerId = null /\ draggingBall = FALSE
  /\ arrowsEnabled = TRUE /\ ballModeEnabled = FALSE /\ passLinesEnabled = FALSE
  /\ passCheckbox_disabled = TRUE
  /\ isRecording = FALSE /\ isReplaying = FALSE /\ recordingFrames = <<>>
  /\ recordStartTime = 0 /\ replayStartTime = 0 /\ replayIndex = 0
  /\ renderQueued = FALSE
  /\ pendingFrames = 0
  /\ recordBtn_disabled = FALSE /\ stopBtn_disabled = TRUE /\ playBtn_disabled = TRUE
  /\ lastOp = "other"
  /\ lastNow = 0
  /\ inputs = 0
  /\ controlCell = NoCell
  /\ passLine = NoPass

SpecArrows == InitArrows /\ [][Next]_vars

\* ---- properties ---------------------------------------------------------
\* the live players and ball carry exactly the values stored in frame
FrameMatches(ps, b, frame) ==
  /\ \A i \in DOMAIN ps : \E k \in DOMAIN frame.players :
       /\ frame.players[k].id = ps[i].id
       /\ frame.players[k].x = ps[i].x /\ frame.players[k].y = ps[i].y
       /\ frame.players[k].vx = ps[i].vx /\ frame.players[k].vy = ps[i].vy
  /\ frame.ball.x = b.x /\ frame.ball.y = b.y

\* this step is a tick that runs the replay branch of renderAll
ReplayTick == lastOp' = "tick" /\ isReplaying /\ Len(recordingFrames) > 0

\* this step is a Record click that reaches the handler and passes its guard
AcceptedRecord == lastOp' = "record" /\ ~recordBtn_disabled /\ ~isReplaying

\* elapsed replay time of the tick that led to the current state
Elapsed == (lastNow - replayStartTime) * REPLAY_SPEED

HasFrameAtOrBefore(frames, tRel) == \E j \in 1..Len(frames) : frames[j].t <= tRel

\* the 0-based index of the last frame whose t <= tRel
LastFrameAtOrBefore(frames, tRel) ==
  (CHOOSE j \in 1..Len(frames) :
     /\ frames[j].t <= tRel
     /\ \A k \in 1..Len(frames) : frames[k].t <= tRel => k <= j) - 1

\* C1: recording and replaying are never both active.
C1_MutuallyExclusive == ~(isRecording /\ isReplaying)

C1_Witness == isReplaying /\ ~isRecording /\ replayIndex > 0 /\ lastOp = "record"

\* C2: a Record click while a replay is active changes nothing: the replay
\* goes on, no recording starts, and the timeline, recordStartTime and the
\* replay cursor keep their values.
C2_RecordRejectedWhileReplaying ==
  [][(lastOp' = "record" /\ isReplaying) =>
       /\ isReplaying' /\ ~isRecording'
       /\ recordingFrames' = recordingFrames
       /\ recordStartTime' = recordStartTime
       /\ replayIndex' = replayIndex]_vars

C2_Witness == lastOp = "record" /\ isReplaying

\* C3: a Play click while a recording is active changes nothing: the
\* recording goes on, no replay starts, and the timeline, the replay cursor
\* and replayStartTime keep their values.
C3_PlayRejectedWhileRecording ==
  [][(lastOp' = "play" /\ isRecording) =>
       /\ isRecording' /\ ~isReplaying'
       /\ recordingFrames' = recordingFrames
       /\ replayIndex' = replayIndex
       /\ replayStartTime' = replayStartTime]_vars

C3_Witness == lastOp = "play" /\ isRecording /\ Len(recordingFrames) > 0

\* C4: after every replay tick the live players and ball carry exactly the
\* values of the frame at the cursor, and every frame a tick captures carries
\* exactly the live values of that tick.
C4_RoundTripLossless ==
  [][/\ ReplayTick => FrameMatches(players', ball', recordingFrames'[replayIndex' + 1])
     /\ Len(recordingFrames') = Len(recordingFrames) + 1 =>
          /\ FrameMatches(players, ball, recordingFrames'[Len(recordingFrames')])
          /\ players' = players /\ ball' = ball]_vars

C4_Witness ==
  /\ lastOp = "tick" /\ isReplaying /\ replayIndex > 0
  /\ recordingFrames[replayIndex + 1].players # recordingFrames[1].players
  /\ FrameMatches(players, ball, recordingFrames[replayIndex + 1])

\* C5: within one replay the cursor never decreases: no step other than a
\* Play click lowers replayIndex while replaying, whatever timestamp a tick
\* is handed.
C5_CursorNeverBackward ==
  [][(isReplaying /\ lastOp' # "play") => replayIndex' >= replayIndex]_vars

\* a replay tick left the cursor on a frame later than its own elapsed time:
\* an earlier tick of this replay had a later timestamp
C5_Witness ==
  /\ lastOp = "tick" /\ isReplaying /\ replayIndex > 0
  /\ recordingFrames[replayIndex + 1].t > Elapsed

\* C6 (as stated): after every replay tick the cursor is the index of the last
\* frame whose t <= elapsed, and the state applied is that frame's snapshot.
C6_CursorIsLastFrameAtOrBefore ==
  [][ReplayTick =>
       /\ HasFrameAtOrBefore(recordingFrames, Elapsed')
       /\ replayIndex' = LastFrameAtOrBefore(recordingFrames, Elapsed')
       /\ FrameMatches(players', ball', recordingFrames[replayIndex' + 1])]_vars

\* C6 (amended): with timestamps that never run backward, after every replay
\* tick the cursor is the index of the last frame whose t <= elapsed when there
\* is such a frame, and 0 (the first frame) when every frame's t exceeds
\* elapsed; the state applied is the snapshot of the frame at the cursor.
C6_CursorIsLastFrameAtOrBeforeOrFirst ==
  [][ReplayTick =>
       /\ replayIndex' = IF HasFrameAtOrBefore(recordingFrames, Elapsed')
                         THEN LastFrameAtOrBefore(recordingFrames, Elapsed')
                         ELSE 0
       /\ FrameMatches(players', ball', recordingFrames[replayIndex' + 1])]_vars

C6_Witness ==
  /\ lastOp = "tick" /\ isReplaying /\ replayIndex = 1
  /\ Len(recordingFrames) = 3
  /\ recordingFrames[2].t <= Elapsed /\ recordingFrames[3].t > Elapsed
  /\ recordingFrames[2].players # recordingFrames[1].players

\* C7: a replay tick ends the replay exactly when it leaves the cursor on the
\* final frame, and then the live players and ball are that frame's snapshot;
\* so after a tick a replay still running has its cursor before the final frame.
C7_ReplayEndsAtFinalFrame ==
  [][/\ ReplayTick =>
          /\ isReplaying' <=> replayIndex' < Len(recordingFrames) - 1
          /\ ~isReplaying' =>
               FrameMatches(players', ball', recordingFrames[Len(recordingFrames)])
     /\ (lastOp' = "tick" /\ isReplaying') => replayIndex' < Len(recordingFrames') - 1]_vars

\* a replay of a clip of several frames has run to its end by itself
C7_Witness ==
  /\ lastOp = "tick" /\ ~isReplaying /\ ~isRecording /\ recordBtn_disabled
  /\ Len(recordingFrames) >= 2 /\ replayIndex = Len(recordingFrames) - 1
  /\ recordingFrames[Len(recordingFrames)].players # recordingFrames[1].players

\* C8: a replay that has been started ends without further input: a running
\* replay always has an animation-frame callback pending (every tick that
\* leaves it unfinished queues the next), and, while the clock can still reach
\* the end of the clip, it does not go on for ever, given that pending
\* callbacks are run with timestamps that come to pass the end of the clip.
C8_StartedReplayFinishes ==
  /\ [](isReplaying => renderQueued)
  /\ (isReplaying /\ ReplayCanFinish) ~> (~isReplaying \/ ~ReplayCanFinish)

\* a tick left the replay unfinished and queued the next animation frame
C8_Witness ==
  /\ lastOp = "tick" /\ isReplaying /\ renderQueued /\ ReplayCanFinish
  /\ replayIndex < Len(recordingFrames) - 1

\* C9: the timeline is append-only and its frames never change: every step
\* other than an accepted start of a recording leaves the frames it found in
\* place, in order and unchanged, adding at most one frame at the end.
C9_TimelineAppendOnly ==
  [][~AcceptedRecord =>
       /\ Len(recordingFrames') \in {Len(recordingFrames), Len(recordingFrames) + 1}
       /\ \A k \in 1..Len(recordingFrames) :
            recordingFrames'[k] = recordingFrames[k]]_vars

\* a live player or the ball was changed after a frame was captured
C9_Witness ==
  /\ lastOp = "other" /\ Len(recordingFrames) >= 2
  /\ ~FrameMatches(players, ball, recordingFrames[Len(recordingFrames)])
  /\ ~FrameMatches(players, ball, recordingFrames[1])

\* C10: an accepted start of a recording leaves the timeline empty and
\* isRecording true, whatever the timeline held; and frames are added only
\* while recording, so every later frame belongs to the newest recording.
C10_RecordDiscardsTimeline ==
  [][/\ AcceptedRecord => (recordingFrames' = <<>> /\ isRecording')
     /\ Len(recordingFrames') > Len(recordingFrames) => isRecording]_vars

\* a recording was started over a clip that had been replayed
C10_Witness ==
  /\ lastOp = "record" /\ isRecording /\ recordingFrames = <<>>
  /\ replayIndex > 0

\* C11: with animation-frame timestamps that strictly increase, the frames of
\* the timeline carry strictly increasing t in capture order.
C11_FrameTimesIncrease ==
  \A i, j \in 1..Len(recordingFrames) :
    i < j => recordingFrames[i].t < recordingFrames[j].t

\* a recording holds two frames captured by two ticks
C11_Witness ==
  /\ isRecording /\ lastOp = "tick" /\ Len(recordingFrames) >= 2
  /\ recordingFrames[2].t > recordingFrames[1].t
  /\ recordingFrames[2].t = lastNow - recordStartTime

\* the frame holds one entry per live player, with the live players' ids
SameIds(ps, frame) ==
  /\ Len(frame.players) = Len(ps)
  /\ {frame.players[k].id : k \in DOMAIN frame.players} = {ps[i].id : i \in DOMAIN ps}

\* C12: a tick appends exactly one frame when recording is active and none
\* otherwise; the appended frame has t = tick timestamp - recordStartTime and
\* holds, for every live player and the ball, the values they have at the end
\* of that tick (so after any replay overwrite of the tick).
C12_OneFramePerRecordingTick ==
  [][lastOp' = "tick" =>
       IF isRecording
       THEN /\ Len(recordingFrames') = Len(recordingFrames) + 1
            /\ SubSeq(recordingFrames', 1, Len(recordingFrames)) = recordingFrames
            /\ LET frame == recordingFrames'[Len(recordingFrames')]
               IN /\ frame.t = lastNow' - recordStartTime
                  /\ SameIds(players', frame)
                  /\ FrameMatches(players', ball', frame)
       ELSE recordingFrames' = recordingFrames]_vars

\* a recording tick captured players that had been dragged and a later tick
\* captured again
C12_Witness ==
  /\ lastOp = "tick" /\ isRecording /\ Len(recordingFrames) = 3
  /\ recordingFrames[3].t = lastNow - recordStartTime
  /\ recordingFrames[3].players # recordingFrames[1].players
  /\ FrameMatches(players, ball, recordingFrames[3])

\* C13: a Stop click during a replay leaves the page Idle with the timeline,
\* the live players and the ball unchanged and Play available; a tick outside
\* a replay (one that was pending when Stop was clicked included) changes no
\* live player or ball and queues no further tick; and a Play click that is
\* accepted starts a replay of the unchanged timeline at cursor 0.
C13_StopDiscardsNothing ==
  [][/\ (lastOp' = "stop" /\ isReplaying) =>
          /\ ~isReplaying' /\ ~isRecording'
          /\ recordingFrames' = recordingFrames
          /\ players' = players /\ ball' = ball
          /\ ~playBtn_disabled'
     /\ (lastOp' = "tick" /\ ~isReplaying) =>
          /\ players' = players /\ ball' = ball
          /\ ~isReplaying' /\ ~renderQueued'
          /\ replayIndex' = replayIndex
     /\ (lastOp' = "play" /\ ~playBtn_disabled) =>
          /\ isReplaying' /\ replayIndex' = 0
          /\ recordingFrames' = recordingFrames]_vars

\* a replay was stopped part-way, with its next animation frame still pending
C13_Witness ==
  /\ lastOp = "stop" /\ ~isReplaying /\ ~isRecording /\ renderQueued
  /\ replayIndex >= 1 /\ replayIndex < Len(recordingFrames) - 1
  /\ FrameMatches(players, ball, recordingFrames[replayIndex + 1])
  /\ recordingFrames[replayIndex + 1].players # recordingFrames[1].players

\* the inset rectangles: PLAYER_RADIUS * 1.5 and BALL_RADIUS * 1.2 from each edge
PlayerInset == (PLAYER_RADIUS * PLAYER_MARGIN_x10 * Unit) \div 10
BallInset == (BALL_RADIUS * BALL_MARGIN_x10 * Unit) \div 10

InPlayerRectangle(x, y) ==
  /\ PlayerInset <= x /\ x <= LOGICAL_WIDTH - PlayerInset
  /\ PlayerInset <= y /\ y <= LOGICAL_HEIGHT - PlayerInset

InBallRectangle(x, y) ==
  /\ BallInset <= x /\ x <= LOGICAL_WIDTH - BallInset
  /\ BallInset <= y /\ y <= LOGICAL_HEIGHT - BallInset

\* C14: every player lies in [15, 1035] x [15, 665] and the ball in
\* [8.4, 1041.6] x [8.4, 671.6], in every reachable state; so do the starting
\* positions of all players of both formations.
C14_InsideInsetRectangles ==
  /\ \A i \in DOMAIN players : InPlayerRectangle(players[i].x, players[i].y)
  /\ InBallRectangle(ball.x, ball.y)
  /\ \A k \in DOMAIN blueFormation :
       /\ InPlayerRectangle((blueFormation[k][1] * LOGICAL_WIDTH) \div 100,
                            (blueFormation[k][2] * LOGICAL_HEIGHT) \div 100)
       /\ InPlayerRectangle((redFormation[k][1] * LOGICAL_WIDTH) \div 100,
                            (redFormation[k][2] * LOGICAL_HEIGHT) \div 100)

\* a player was dragged to a pointer outside the pitch and stopped at the
\* corner of its rectangle
C14_Witness ==
  \E i \in DOMAIN players :
    /\ players[i].x = PlayerInset
    /\ players[i].y = LOGICAL_HEIGHT - PlayerInset

SpeedSq(p) == p.vx * p.vx + p.vy * p.vy

\* C15 (as stated): every player's velocity satisfies vx^2 + vy^2 <= 35^2.
C15_SpeedAtMostMax ==
  \A i \in DOMAIN players : SpeedSq(players[i]) <= (MAX_SPEED_VIS * Unit) * (MAX_SPEED_VIS * Unit)

\* C15 (amended): every player's velocity magnitude is at most MAX_SPEED_VIS up
\* to the rounding of the two stored components (one grid step of the model).
C15_SpeedAtMostMaxUpToRounding ==
  \A i \in DOMAIN players :
    SpeedSq(players[i]) <= (MAX_SPEED_VIS * Unit + 1) * (MAX_SPEED_VIS * Unit + 1)

\* an arrow drag to a pointer further away than MAX_SPEED_VIS wrote a clamped,
\* oblique velocity
C15_Witness ==
  \E i \in DOMAIN players :
    /\ players[i].vx # 0 /\ players[i].vy # 0
    /\ SpeedSq(players[i]) >= (MAX_SPEED_VIS * Unit - 1) * (MAX_SPEED_VIS * Unit - 1)

\* ---- the control map --------------------------------------------------------
\* the squared distance and the velocity's component along (lx, ly) - p,
\* not yet divided by the distance
DistSq(p, lx, ly) == (lx - p.x) * (lx - p.x) + (ly - p.y) * (ly - p.y)
Closing(p, lx, ly) == p.vx * (lx - p.x) + p.vy * (ly - p.y)
AtRest(p) == [p EXCEPT !.vx = 0, !.vy = 0]

\* (max(0, dist - 0.6 * clamp(closing, -25, 25)))^2, 0 at the player's position
ReferenceCostSq(p, lx, ly) ==
  LET dist == SqrtR(DistSq(p, lx, ly))
      closing == DivR(Closing(p, lx, ly), dist)
      bias == DivR(6 * clamp(closing, -(25 * Unit), 25 * Unit), 10)
  IN IF DistSq(p, lx, ly) = 0 THEN 0
     ELSE IF dist - bias <= 0 THEN 0 ELSE (dist - bias) * (dist - bias)

\* the least of a non-empty set of costs
LeastOf(S) == CHOOSE m \in S : \A c \in S : m <= c

\* C16: for every player and every evaluated cell centre, arrivalCostSquared is 0
\* at the player's own position and otherwise the square of
\* max(0, dist - 0.6 * clamp(closing, -25, 25)); it is never negative, a player
\* moving away from the cell never costs less than the same player at rest, and
\* the cell's minimum with arrows enabled is the least of these costs.
C16_ArrivalCostIsReference ==
  (controlCell.painted /\ arrowsEnabled) =>
    /\ \A i \in DOMAIN players :
         LET p == players[i]
             lx == controlCell.lx
             ly == controlCell.ly
             cost == arrivalCostSquared(p, lx, ly)
         IN /\ cost = ReferenceCostSq(p, lx, ly)
            /\ cost >= 0
            /\ DistSq(p, lx, ly) = 0 => cost = 0
            /\ Closing(p, lx, ly) < 0 => cost >= arrivalCostSquared(AtRest(p), lx, ly)
            /\ Closing(p, lx, ly) > 0 => cost <= arrivalCostSquared(AtRest(p), lx, ly)
    /\ \A team \in {"blue", "red"} :
         LET costs == { arrivalCostSquared(players[i], controlCell.lx, controlCell.ly) :
                          i \in { j \in DOMAIN players : players[j].team = team } }
             least == IF team = "blue" THEN controlCell.minBlueSq ELSE controlCell.minRedSq
         IN IF costs = {} THEN least = Infinity ELSE least = LeastOf(costs)

\* a cell evaluated with arrows enabled for a player moving away, who costs more
\* than at rest, and a player close by whose approach brings the cost down to
\* the floor of 0
C16_Witness ==
  /\ controlCell.painted /\ arrowsEnabled
  /\ \E i \in DOMAIN players :
       /\ Closing(players[i], controlCell.lx, controlCell.ly) < 0
       /\ arrivalCostSquared(players[i], controlCell.lx, controlCell.ly)
            > arrivalCostSquared(AtRest(players[i]), controlCell.lx, controlCell.ly)
  /\ \E i \in DOMAIN players :
       /\ DistSq(players[i], controlCell.lx, controlCell.ly) > 0
       /\ arrivalCostSquared(players[i], controlCell.lx, controlCell.ly) = 0

\* the costs of a team's players for the painted cell, and the least of them,
\* taken over the set of players whatever their order
TeamCosts(team) ==
  { cellCostSq(players[i], controlCell.lx, controlCell.ly) :
      i \in { j \in DOMAIN players : players[j].team = team } }

BothTeamsPresent == TeamCosts("blue") # {} /\ TeamCosts("red") # {}

PlainCell == controlCell.painted /\ ~controlCell.ballMode /\ BothTeamsPresent

\* C17: in plain mode with both teams present, blue controls the cell iff the
\* least blue cost is at most the least red cost, and red controls it iff the
\* least red cost is strictly lower, whatever the order the players are stored in.
C17_LowerCostControls ==
  PlainCell =>
    /\ controlCell.winner \in {"blue", "red"}
    /\ controlCell.winner = "blue" <=> LeastOf(TeamCosts("blue")) <= LeastOf(TeamCosts("red"))
    /\ controlCell.winner = "red" <=> LeastOf(TeamCosts("red")) < LeastOf(TeamCosts("blue"))

\* a tie between the teams' least costs that blue wins although a red player is
\* stored first and the nearest blue player last
C17_Witness ==
  /\ PlainCell
  /\ Len(players) = MaxFieldPlayers
  /\ players[1].team = "red"
  /\ players[Len(players)].team = "blue"
  /\ LeastOf(TeamCosts("blue")) = LeastOf(TeamCosts("red"))
  /\ cellCostSq(players[Len(players)], controlCell.lx, controlCell.ly) = LeastOf(TeamCosts("blue"))
  /\ LeastOf(TeamCosts("blue")) > 0
  /\ controlCell.winner = "blue"

\* the lower and the higher of the two teams' least costs for the painted cell
LowCost == Min(LeastOf(TeamCosts("blue")), LeastOf(TeamCosts("red")))
HighCost == Max(LeastOf(TeamCosts("blue")), LeastOf(TeamCosts("red")))

\* t, in hundredths, as the piecewise function of ratio = low / high
PiecewiseOfRatio(low, high) ==
  IF 100 * low <= START_FADE_RATIO_SQUARED_x100 * high THEN 0
  ELSE IF 100 * low >= FULL_WHITE_RATIO_SQUARED_x100 * high THEN 100
  ELSE DivR(20 * (100 * low - START_FADE_RATIO_SQUARED_x100 * high),
            ((FULL_WHITE_RATIO_SQUARED_x100 - START_FADE_RATIO_SQUARED_x100) \div 5) * high)

\* C18: in plain mode, at every cell where both teams are present, the contest
\* scalar t is a number in [0,1], whatever the two least costs are (0 included),
\* and where the ratio of the lower to the higher cost exists it is 0 up to 0.45,
\* 1 from 0.9 and linear in between.
C18_ContestScalarDefined ==
  PlainCell =>
    /\ controlCell.t \in 0..100
    /\ HighCost > 0 => controlCell.t = PiecewiseOfRatio(LowCost, HighCost)

\* the squared distances of a team's players to the painted cell's centre
TeamDistSqs(team) ==
  { DistSq(players[i], controlCell.lx, controlCell.ly) :
      i \in { j \in DOMAIN players : players[j].team = team } }

AllAtRest == \A i \in DOMAIN players : players[i].vx = 0 /\ players[i].vy = 0

\* C19: in plain mode with every velocity zero, a cell whose nearest blue and
\* nearest red player are equally far from its centre has contest scalar exactly 1
\* (as for blue at (10,50), red at (90,50) and the cell centre (50,50)).
C19_EquidistantIsFullContest ==
  (PlainCell /\ AllAtRest
     /\ LeastOf(TeamDistSqs("blue")) = LeastOf(TeamDistSqs("red"))) =>
    controlCell.t = 100

\* ball mode: the squared distance of the ball to the painted cell's centre, and
\* sqrt(least cost of the team) < distBall / BALL_SPEED for a team that has players
BallDistSq ==
  (controlCell.lx - ball.x) * (controlCell.lx - ball.x)
    + (controlCell.ly - ball.y) * (controlCell.ly - ball.y)

TeamBeforeBall(team) ==
  /\ TeamCosts(team) # {}
  /\ BALL_SPEED_x2 * BALL_SPEED_x2 * LeastOf(TeamCosts(team)) < 4 * BallDistSq

\* tA <= tB, an empty team's time being infinite
TeamNoLater(a, b) ==
  \/ TeamCosts(b) = {}
  \/ TeamCosts(a) # {} /\ LeastOf(TeamCosts(a)) <= LeastOf(TeamCosts(b))

\* C20: in ball-relative mode every painted cell is neutral iff both teams'
\* arrival times are strictly less than the ball's travel time; otherwise blue
\* controls iff tBlue <= tRed and red controls iff tRed < tBlue, so a cell is
\* never neutral when a team's time is at least the ball's.
C20_BallModeRule ==
  (controlCell.painted /\ controlCell.ballMode) =>
    /\ controlCell.winner \in {"neutral", "blue", "red"}
    /\ controlCell.winner = "neutral" <=> (TeamBeforeBall("blue") /\ TeamBeforeBall("red"))
    /\ ~(TeamBeforeBall("blue") /\ TeamBeforeBall("red")) =>
         /\ controlCell.winner = "blue" <=> TeamNoLater("blue", "red")
         /\ controlCell.winner = "red" <=> ~TeamNoLater("blue", "red")

\* a ball-mode cell with both teams present that the red team reaches before the
\* ball and the blue team does not: red controls it, it is not neutral
C20_Witness ==
  /\ controlCell.painted /\ controlCell.ballMode
  /\ BothTeamsPresent
  /\ TeamBeforeBall("red") /\ ~TeamBeforeBall("blue")
  /\ controlCell.winner = "red"

\* ---- pass lines ---------------------------------------------------------------
\* the examined pass: its receiver, its squared length, and the opponents (the
\* players of the other team, by index)
PassTarget == players[passLine.target]
PassLenSq == DistSq(PassTarget, ball.x, ball.y)
PassOpponents == { k \in DOMAIN players : players[k].team # PassTarget.team }

\* the opponent's projection on the pass with its parameter clamped to [0,1],
\* the ball's way to it, and the opponent's time to it
ProjectionParamNum(op) ==
  clamp((op.x - ball.x) * (PassTarget.x - ball.x) + (op.y - ball.y) * (PassTarget.y - ball.y),
        0, PassLenSq)
BallWay(op) == DivR(SqrtR(PassLenSq) * ProjectionParamNum(op), PassLenSq)
OpponentTime(op) ==
  SqrtR(arrivalCostSquared(op,
          ball.x + DivR((PassTarget.x - ball.x) * ProjectionParamNum(op), PassLenSq),
          ball.y + DivR((PassTarget.y - ball.y) * ProjectionParamNum(op), PassLenSq)))

\* tOpponent <= tBall and tOpponent = tBall, with tBall = BallWay / BALL_SPEED
NoLaterThanBall(op) == BALL_SPEED_x2 * OpponentTime(op) <= 2 * BallWay(op)
TogetherWithBall(op) == BALL_SPEED_x2 * OpponentTime(op) = 2 * BallWay(op)

\* C21: canPassOnGround answers safe iff the pass is not shorter than the epsilon
\* and no opponent reaches its clamped projection on the pass no later than the
\* ball (tOpponent <= tBall); an opponent arriving together with the ball makes
\* the pass unsafe, a zero-length pass is unsafe, and a pass of positive length
\* with no opponents is safe.
C21_PassSafeIffNoInterceptor ==
  passLine.examined =>
    /\ passLine.safe <=>
         (PassLenSq > 0 /\ \A k \in PassOpponents : ~NoLaterThanBall(players[k]))
    /\ (PassLenSq > 0 /\ \E k \in PassOpponents : TogetherWithBall(players[k])) => ~passLine.safe
    /\ PassLenSq = 0 => ~passLine.safe
    /\ (PassLenSq > 0 /\ PassOpponents = {}) => passLine.safe

\* a pass of positive length that is unsafe only because an opponent arrives
\* together with the ball: every opponent who is no later than the ball is exactly
\* on time
C21_Witness ==
  /\ passLine.examined
  /\ PassLenSq > 0
  /\ \E k \in PassOpponents : TogetherWithBall(players[k])
  /\ \A k \in PassOpponents : NoLaterThanBall(players[k]) => TogetherWithBall(players[k])
  /\ ~passLine.safe

\* ---- the original variant's control map ----------------------------------------
\* findNearestPlayer: the index of the nearest player, of equally near players the
\* one stored first (d2 < bestDistSq keeps the earlier one)
findNearestPlayer(lx, ly) ==
  CHOOSE i \in DOMAIN players : \A j \in DOMAIN players :
    \/ DistSq(players[i], lx, ly) < DistSq(players[j], lx, ly)
    \/ (DistSq(players[i], lx, ly) = DistSq(players[j], lx, ly) /\ i <= j)

\* initPlayers pushes the blue formation before the red one, and nothing reorders
\* the array
BlueListedFirst ==
  \A i, j \in DOMAIN players : (i < j /\ players[j].team = "blue") => players[i].team = "blue"

\* C22: with arrows off in plain mode and both teams on the pitch, blue stored
\* first, the team controlling a cell is the team of the player findNearestPlayer
\* returns for the cell centre, exact ties included.
C22_WinnerIsNearestPlayersTeam ==
  (PlainCell /\ ~arrowsEnabled /\ BlueListedFirst) =>
    controlCell.winner = players[findNearestPlayer(controlCell.lx, controlCell.ly)].team

\* a cell at the same positive distance from the nearest blue and the nearest red
\* player, arrows off, blue stored first: both variants give it to blue
C22_Witness ==
  /\ PlainCell /\ ~arrowsEnabled /\ BlueListedFirst
  /\ LeastOf(TeamDistSqs("blue")) = LeastOf(TeamDistSqs("red"))
  /\ LeastOf(TeamDistSqs("blue")) > 0
  /\ controlCell.winner = "blue"
  /\ players[findNearestPlayer(controlCell.lx, controlCell.ly)].team = "blue"

\* ---- velocities with arrows off ---------------------------------------------
\* the same opponents standing still
OpponentsAtRest(opponents) == [k \in DOMAIN opponents |-> AtRest(opponents[k])]

\* the least squared distance of a team to the painted cell's centre, Infinity
\* for a team without players
LeastDistSq(team) ==
  IF TeamDistSqs(team) = {} THEN Infinity ELSE LeastOf(TeamDistSqs(team))

PointerEvent ==
  \/ \E pos \in PointerPositions : Input(PointerDown(pos))
  \/ \E pos \in MovePositions : Input(PointerMove(pos))
  \/ Input(PointerUp)

\* C23: while a replay runs, a pointer-down, pointer-move or pointer-up event
\* changes no player, not the ball and not the drag state, and the players and
\* the ball change only by a tick that applies a recorded frame.
C23_InputIgnoredWhileReplaying ==
  [][/\ (isReplaying /\ PointerEvent) => UNCHANGED <<players, ball, dragVars>>
     /\ (isReplaying /\ (players' # players \/ ball' # ball)) =>
          /\ ReplayTick
          /\ FrameMatches(players', ball', recordingFrames[replayIndex' + 1])]_vars

\* a pointer-up delivered during a replay that left a drag, begun before Play
\* was clicked, as it was
C23_Witness ==
  /\ isReplaying /\ lastOp = "up"
  /\ draggingPlayerId # null

\* ---- render requests ------------------------------------------------------------
\* C24: at most one animation-frame callback requested by requestRender is
\* pending, and renderQueued is set exactly while one is pending; however many
\* requestRender calls are made between two frames, the next frame finds one
\* callback and so runs renderAll once.
C24_OneFramePending ==
  /\ pendingFrames \in {0, 1}
  /\ renderQueued <=> pendingFrames = 1

\* two requestRender calls since the last frame and one callback pending: a
\* Record click, no frame drawn since (the timeline is still empty), followed by
\* a resize or by the only input so far, the arrows checkbox
C24_Witness ==
  /\ isRecording /\ recordingFrames = <<>>
  /\ lastOp = "other" /\ inputs = 1 /\ ~arrowsEnabled
  /\ renderQueued /\ pendingFrames = 1

\* ---- recording controls -----------------------------------------------------------
\* C25: in every reachable state the Record button is disabled iff the page is
\* recording or replaying, the Stop button is disabled iff it is doing neither,
\* and the Play button is disabled iff it is recording or the timeline is empty,
\* also after a replay ended by itself and while frames are appended.
C25_ButtonsReflectState ==
  /\ recordBtn_disabled <=> (isRecording \/ isReplaying)
  /\ stopBtn_disabled <=> (~isRecording /\ ~isReplaying)
  /\ playBtn_disabled <=> (isRecording \/ Len(recordingFrames) = 0)

\* ---- drags ---------------------------------------------------------------------
NoDragTarget == draggingPlayerId = null /\ draggingArrowPlayerId = null /\ ~draggingBall

\* C26: in the state right after a pointer-up (mouseup, touchend, touchcancel) no
\* player, no arrow and not the ball is being dragged, whatever clicks and
\* animation frames came between the pointer events.
C26_ReleaseEndsDrag == lastOp = "up" => NoDragTarget

\* the drag targets: the ball, a player, a player's arrow
DragTargets ==
  (IF draggingBall THEN {"ball"} ELSE {})
    \cup (IF draggingPlayerId # null THEN {"player"} ELSE {})
    \cup (IF draggingArrowPlayerId # null THEN {"arrow"} ELSE {})

\* C27: in every reachable state at most one of the ball, a player and an arrow is
\* being dragged, also after two pointer-downs with no pointer-up between them.
C27_OneDragTarget == Cardinality(DragTargets) <= 1

\* ---- feature toggles --------------------------------------------------------------
\* C28: in every reachable state pass lines are on only in ball mode, the ball is
\* dragged only in ball mode, and an arrow is dragged only while arrows are on.
C28_SubFeaturesNeedTheirFeature ==
  /\ passLinesEnabled => ballModeEnabled
  /\ draggingBall => ballModeEnabled
  /\ draggingArrowPlayerId # null => arrowsEnabled

\* ball mode was switched off while pass lines were on or the ball was dragged:
\* all three inputs are used up, the last one switched ball mode off, and before
\* it ball mode had to be switched on and a sub-feature started
C28_Witness ==
  /\ inputs = MaxInputs
  /\ ~ballModeEnabled /\ passCheckbox_disabled
  /\ ~passLinesEnabled /\ ~draggingBall
  /\ arrowsEnabled /\ hoveredPlayerId = null
  /\ draggingPlayerId = null /\ draggingArrowPlayerId = null
  /\ players = initPlayers
  /\ renderQueued /\ recordingFrames = <<>> /\ ~isRecording

\* ---- slow velocities -------------------------------------------------------------
VelocityOf(ps, i) == <<ps[i].vx, ps[i].vy>>

\* vx^2 + vy^2 <= 1
Slow(p) == SpeedSq(p) <= Unit * Unit

ArrowDragged(i) == draggingArrowPlayerId = players[i].id

\* C29 as stated: a step that changes the velocity of a player whose speed squared
\* is at most 1 is a replay tick.
C29_SlowVelocityIsFinal ==
  [][\A i \in DOMAIN players :
       (Slow(players[i]) /\ VelocityOf(players', i) # VelocityOf(players, i)) => ReplayTick]_vars

\* C29, amended: for a player whose speed squared is at most 1 and whose arrow is
\* not being dragged, a step that changes the velocity is a replay tick, and no
\* step starts an arrow drag on that player.
C29_SlowVelocityIsFinalOutsideADrag ==
  [][\A i \in DOMAIN players :
       (Slow(players[i]) /\ ~ArrowDragged(i)) =>
         /\ VelocityOf(players', i) # VelocityOf(players, i) => ReplayTick
         /\ draggingArrowPlayerId' # players[i].id]_vars

\* a pointer-down on a player of speed exactly 1 with arrows on has started a move
\* drag, not an arrow drag, and the velocity is as it was
C29_Witness ==
  /\ arrowsEnabled /\ ~isReplaying
  /\ VelocityOf(players, 1) = <<SlowestArrowVelocity.vx, SlowestArrowVelocity.vy>>
  /\ draggingPlayerId = players[1].id /\ draggingArrowPlayerId = null
  /\ inputs = 1

=============================================================================
